---------------------------- MODULE Spec2Model ----------------------------
(***************************************************************************)
(* Model of netlify/functions/openai-proxy.js: the Netlify function that   *)
(* relays a chat-completion request to the OpenAI API with the server-held *)
(* key.  One invocation of exports.handler is a run-to-completion segment  *)
(* up to each await: Invoke (lines 16-44), FetchSettles (the await of      *)
(* line 35 up to the await of line 48 or 57), TextSettles (lines 48-53)    *)
(* and JsonSettles (lines 57-63).                                          *)
(*                                                                         *)
(* A JavaScript string is modelled as a text: either Raw(chars), a text    *)
(* that is not a JSON document, or Doc(value, layout), the JSON document   *)
(* that denotes value, written compactly (as JSON.stringify writes it) or  *)
(* with insignificant white space.  A JSON number is kept as its decimal   *)
(* digits, so that the conversion to a double is visible.                  *)
(***************************************************************************)
EXTENDS Integers, Sequences, FiniteSets

\* Number of invocations of the handler that the platform runs concurrently.
NumInvocations == 2

Invocations == 1..NumInvocations

-----------------------------------------------------------------------------
(* JavaScript values *)

Undefined == [type |-> "undefined"]

Raw(chars) == [kind |-> "raw", chars |-> chars]

Doc(value, layout) == [kind |-> "json", value |-> value, layout |-> layout]

Obj(members) == [type |-> "object", members |-> members]

StrMember(key, text) == [key |-> key, type |-> "string", str |-> text]

NumMember(key, digits) == [key |-> key, type |-> "number", digits |-> digits]

ArrMember(key) == [key |-> key, type |-> "array"]

\* String(x) as JSON.parse applies it to its argument: undefined becomes the
\* text "undefined", a string stays itself.
ToString(x) == IF x = Undefined THEN Raw("undefined") ELSE x

\* The double nearest to a decimal integer numeral: integers up to 2^53 are
\* exact, 2^53 + 1 lies halfway between two doubles and rounds to even.
ToDouble(digits) ==
    IF digits = "9007199254740993" THEN "9007199254740992" ELSE digits

ToJSMember(m) ==
    IF m.type = "number" THEN NumMember(m.key, ToDouble(m.digits)) ELSE m

\* The JavaScript value of a JSON value: every number becomes a double.
ToJS(value) ==
    IF value.type = "object"
    THEN Obj([k \in DOMAIN value.members |-> ToJSMember(value.members[k])])
    ELSE value

IsJSON(text) == text.kind = "json"

\* JSON.parse(x) for an x whose text is a JSON document.
JSONparse(x) == ToJS(ToString(x).value)

\* The message of the SyntaxError JSON.parse throws on a text that is no
\* JSON document.
SyntaxErrorMessage(text) ==
    IF text.chars = ""
    THEN "Unexpected end of JSON input"
    ELSE "Unexpected token in JSON: " \o text.chars

\* JSON.stringify(value) of a value that JSON.parse or an object literal of
\* strings produced: the compact document of that value.
JSONstringify(value) == Doc(value, "compact")

Error(name, message) == [name |-> name, message |-> Raw(message)]

\* As if line 29 read: if (apiKey === undefined).
Falsy_undefinedOnly(x) == x = Undefined

Falsy(x) == x = Undefined \/ x = Raw("")

-----------------------------------------------------------------------------
(* Inputs *)

Methods == {"POST", "GET", "post"}

ChatRequest == Obj(<<StrMember("model", Raw("gpt-x")), ArrMember("messages")>>)

InboundBodies ==
    { Undefined,
      Raw("{\"model\":"),
      Doc(ChatRequest, "compact"),
      Doc(ChatRequest, "spaced") }

EnvValues == {Undefined, Raw(""), Raw("sk-A"), Raw("sk-B")}

Completion == Obj(<<StrMember("id", Raw("abc")), ArrMember("choices")>>)

BigId == Obj(<<NumMember("id", "9007199254740993")>>)

UpstreamBodies ==
    { Doc(Completion, "compact"),
      Doc(BigId, "compact"),
      Raw("<html>Bad Gateway</html>") }

StatusTexts ==
    [s \in {200, 201, 401, 500} |->
        CASE s = 200 -> "OK"
          [] s = 201 -> "Created"
          [] s = 401 -> "Unauthorized"
          [] s = 500 -> "Internal Server Error"]

\* A Response as fetch resolves it: ok is true for the statuses 200..299.
UpstreamResponse(status) ==
    [settled |-> "resolved", status |-> status,
     statusText |-> StatusTexts[status], ok |-> (status >= 200 /\ status <= 299)]

FetchRejected == [settled |-> "rejected", error |-> Error("TypeError", "fetch failed")]

FetchOutcomes == {UpstreamResponse(s) : s \in DOMAIN StatusTexts} \cup {FetchRejected}

BodyFailed == [read |-> "failed", error |-> Error("TypeError", "terminated")]

BodyRead(text) == [read |-> "text", text |-> text]

BodyOutcomes == {BodyRead(t) : t \in UpstreamBodies} \cup {BodyFailed}

None == [type |-> "none"]

-----------------------------------------------------------------------------
(* State *)

VARIABLES
    env,          \* env[i]: process.env.OPENAI_API_KEY in the process that runs i
    pc,           \* pc[i]: where invocation i stands
    event,        \* event[i]: the request handed to invocation i
    requestBody,  \* requestBody[i]: the local of line 24
    apiKey,       \* apiKey[i]: the local of line 27
    calls,        \* calls[i]: the fetch requests invocation i has issued
    response,     \* response[i]: how the fetch of invocation i settled
    upstreamBody, \* upstreamBody[i]: how the read of the upstream body settled
    returned,     \* returned[i]: the values invocation i has returned
    log,          \* log[i]: the console.error lines of invocation i
    steps         \* steps[i]: the statements invocation i has executed, in order

vars == <<env, pc, event, requestBody, apiKey, calls, response, upstreamBody,
          returned, log, steps>>

-----------------------------------------------------------------------------
(* The handler's pieces *)

\* As if line 18 compared event.httpMethod.toUpperCase().
MethodAllowed_anyCase(httpMethod) == httpMethod \in {"POST", "post"}

MethodAllowed(httpMethod) == httpMethod = "POST"

MethodNotAllowed == [statusCode |-> 405, body |-> Raw("Method Not Allowed")]

MissingKey == Error("Error", "OpenAI API key is not set in Netlify environment variables.")

UpstreamRequest(body, key) ==
    [url |-> "https://api.openai.com/v1/chat/completions",
     method |-> "POST",
     headers |-> [ContentType |-> "application/json",
                  Authorization |-> "Bearer " \o key.chars],
     body |-> JSONstringify(body)]

UpstreamErrorLog(errorBody) == [label |-> "OpenAI API Error:", arg |-> errorBody]

\* As if line 51 read: statusCode: 500.
UpstreamErrorResponse_500(resp, errorBody) ==
    [statusCode |-> 500,
     body |-> JSONstringify(Obj(<<
         StrMember("error", Raw("OpenAI API request failed: " \o resp.statusText)),
         StrMember("details", errorBody)>>))]

UpstreamErrorResponse(resp, errorBody) ==
    [statusCode |-> resp.status,
     body |-> JSONstringify(Obj(<<
         StrMember("error", Raw("OpenAI API request failed: " \o resp.statusText)),
         StrMember("details", errorBody)>>))]

SuccessResponse(data) == [statusCode |-> 200, body |-> JSONstringify(data)]

CatchLog(error) == [label |-> "Proxy function error:", arg |-> error]

\* As if line 70 hid the message: { error: 'Internal Server Error' }.
CatchResponse_generic(error) ==
    [statusCode |-> 500,
     body |-> JSONstringify(Obj(<<StrMember("error", Raw("Internal Server Error"))>>))]

\* As if line 69 read: statusCode: 502.
CatchResponse_badGateway(error) ==
    [statusCode |-> 502,
     body |-> JSONstringify(Obj(<<StrMember("error", error.message)>>))]

\* As if line 69 answered a SyntaxError with 400.
CatchResponse_badRequest(error) ==
    [statusCode |-> IF error.name = "SyntaxError" THEN 400 ELSE 500,
     body |-> JSONstringify(Obj(<<StrMember("error", error.message)>>))]

CatchResponse(error) ==
    [statusCode |-> 500,
     body |-> JSONstringify(Obj(<<StrMember("error", error.message)>>))]

\* return value: invocation i hands value to the platform and ends.
Return(i, value) ==
    /\ returned' = [returned EXCEPT ![i] = Append(@, value)]
    /\ pc' = [pc EXCEPT ![i] = "done"]

\* As if line 67 read: console.error('Proxy function error:', error, apiKey).
Catch_logsKey(i, error) ==
    /\ log' = [log EXCEPT ![i] = Append(@, [label |-> "Proxy function error:",
                                             arg |-> error, key |-> env[i]])]
    /\ Return(i, CatchResponse(error))

\* As if there were no try/catch: the exception leaves the handler.
Catch_unhandled(i, error) ==
    /\ pc' = [pc EXCEPT ![i] = "fault"]
    /\ UNCHANGED <<returned, log>>

\* catch (error) { ... }: lines 65-72.
Catch(i, error) ==
    /\ log' = [log EXCEPT ![i] = Append(@, CatchLog(error))]
    /\ Return(i, CatchResponse(error))

-----------------------------------------------------------------------------
(* Actions *)

\* The state of every invocation before the platform calls the handler.
Idle ==
    /\ pc = [i \in Invocations |-> "idle"]
    /\ event = [i \in Invocations |-> None]
    /\ requestBody = [i \in Invocations |-> None]
    /\ apiKey = [i \in Invocations |-> None]
    /\ calls = [i \in Invocations |-> <<>>]
    /\ response = [i \in Invocations |-> None]
    /\ upstreamBody = [i \in Invocations |-> None]
    /\ returned = [i \in Invocations |-> <<>>]
    /\ log = [i \in Invocations |-> <<>>]
    /\ steps = [i \in Invocations |-> <<>>]

\* One deployment: every invocation reads the same process environment, which
\* the handler never writes.
Init ==
    /\ \E key \in EnvValues : env = [i \in Invocations |-> key]
    /\ Idle

\* Runs of deployments that differ in the key they are configured with.
InitRuns ==
    /\ env \in [Invocations -> {key \in EnvValues : ~Falsy(key)}]
    /\ Idle

\* The platform calls handler(event): lines 16-44, up to the first await.
Invoke(i) ==
    /\ pc[i] = "idle"
    /\ \E httpMethod \in Methods, body \in InboundBodies :
        /\ event' = [event EXCEPT ![i] = [httpMethod |-> httpMethod, body |-> body]]
        /\ IF ~MethodAllowed(httpMethod)
           THEN /\ steps' = [steps EXCEPT ![i] = <<"method">>]
                /\ Return(i, MethodNotAllowed)
                /\ UNCHANGED <<requestBody, apiKey, calls, log>>
           ELSE IF ~IsJSON(ToString(body))
           THEN /\ steps' = [steps EXCEPT ![i] = <<"method", "parse">>]
                /\ Catch(i, Error("SyntaxError", SyntaxErrorMessage(ToString(body))))
                /\ UNCHANGED <<requestBody, apiKey, calls>>
           ELSE IF Falsy(env[i])
           THEN /\ steps' = [steps EXCEPT ![i] = <<"method", "parse", "readKey">>]
                /\ requestBody' = [requestBody EXCEPT ![i] = JSONparse(body)]
                /\ apiKey' = [apiKey EXCEPT ![i] = env[i]]
                /\ Catch(i, MissingKey)
                /\ UNCHANGED calls
           ELSE /\ steps' = [steps EXCEPT ![i] = <<"method", "parse", "readKey", "fetch">>]
                /\ requestBody' = [requestBody EXCEPT ![i] = JSONparse(body)]
                /\ apiKey' = [apiKey EXCEPT ![i] = env[i]]
                /\ calls' = [calls EXCEPT ![i] =
                                Append(@, UpstreamRequest(JSONparse(body), env[i]))]
                /\ pc' = [pc EXCEPT ![i] = "awaitFetch"]
                /\ UNCHANGED <<returned, log>>
    /\ UNCHANGED <<env, response, upstreamBody>>

\* The fetch of line 35 settles: lines 47-48 or 57, up to the next await.
FetchSettles(i) ==
    /\ pc[i] = "awaitFetch"
    /\ \E outcome \in FetchOutcomes :
        /\ response' = [response EXCEPT ![i] = outcome]
        /\ IF outcome.settled = "rejected"
           THEN /\ Catch(i, outcome.error)
           ELSE /\ pc' = [pc EXCEPT ![i] = IF outcome.ok THEN "awaitJson" ELSE "awaitText"]
                /\ UNCHANGED <<returned, log>>
    /\ UNCHANGED <<env, event, requestBody, apiKey, calls, upstreamBody, steps>>

\* As if response were a variable of the module, shared by the invocations:
\* line 51 reads the response of whichever fetch settled last.
TextSettles_shared(i) ==
    /\ pc[i] = "awaitText"
    /\ \E outcome \in BodyOutcomes, j \in Invocations :
        /\ response[j] # None /\ response[j].settled = "resolved"
        /\ upstreamBody' = [upstreamBody EXCEPT ![i] = outcome]
        /\ IF outcome.read = "failed"
           THEN Catch(i, outcome.error)
           ELSE /\ log' = [log EXCEPT ![i] = Append(@, UpstreamErrorLog(outcome.text))]
                /\ Return(i, UpstreamErrorResponse(response[j], outcome.text))
    /\ UNCHANGED <<env, event, requestBody, apiKey, calls, response, steps>>

\* response.text() of line 48 settles: lines 49-53.
TextSettles(i) ==
    /\ pc[i] = "awaitText"
    /\ \E outcome \in BodyOutcomes :
        /\ upstreamBody' = [upstreamBody EXCEPT ![i] = outcome]
        /\ IF outcome.read = "failed"
           THEN Catch(i, outcome.error)
           ELSE /\ log' = [log EXCEPT ![i] = Append(@, UpstreamErrorLog(outcome.text))]
                /\ Return(i, UpstreamErrorResponse(response[i], outcome.text))
    /\ UNCHANGED <<env, event, requestBody, apiKey, calls, response, steps>>

\* response.json() of line 57 settles: lines 60-63.
JsonSettles(i) ==
    /\ pc[i] = "awaitJson"
    /\ \E outcome \in BodyOutcomes :
        /\ upstreamBody' = [upstreamBody EXCEPT ![i] = outcome]
        /\ IF outcome.read = "failed"
           THEN Catch(i, outcome.error)
           ELSE IF ~IsJSON(outcome.text)
           THEN Catch(i, Error("SyntaxError", SyntaxErrorMessage(outcome.text)))
           ELSE /\ Return(i, SuccessResponse(JSONparse(outcome.text)))
                /\ UNCHANGED log
    /\ UNCHANGED <<env, event, requestBody, apiKey, calls, response, steps>>

Next ==
    \E i \in Invocations :
        \/ Invoke(i)
        \/ FetchSettles(i)
        \/ TextSettles(i)
        \/ JsonSettles(i)

Spec == Init /\ [][Next]_vars

SpecRuns == InitRuns /\ [][Next]_vars

\* The platform need not call the handler, but a fetch that was issued and a
\* body read that was started settle.
FairSpec ==
    /\ Spec
    /\ \A i \in Invocations :
        /\ WF_vars(FetchSettles(i))
        /\ WF_vars(TextSettles(i))
        /\ WF_vars(JsonSettles(i))

-----------------------------------------------------------------------------
(* Vocabulary of the properties *)

Done(i) == pc[i] = "done"

Result(i) == returned[i][1]

IsPost(i) == event[i] # None /\ event[i].httpMethod = "POST"

Parseable(i) == IsJSON(ToString(event[i].body))

Resolved(i) == response[i] # None /\ response[i].settled = "resolved"

Rejected(i) == response[i] # None /\ response[i].settled = "rejected"

BodyText(i) == upstreamBody[i] # None /\ upstreamBody[i].read = "text"

BodyLost(i) == upstreamBody[i] # None /\ upstreamBody[i].read = "failed"

\* The body is a JSON object with a string member of that name.
HasField(body, key) ==
    /\ body.kind = "json"
    /\ body.value.type = "object"
    /\ \E k \in DOMAIN body.value.members :
          body.value.members[k].key = key /\ body.value.members[k].type = "string"

Field(body, key) ==
    LET k == CHOOSE k \in DOMAIN body.value.members : body.value.members[k].key = key
    IN  body.value.members[k].str

\* The body is exactly the JSON text {"error": message}.
IsErrorEnvelope(body, message) ==
    /\ HasField(body, "error")
    /\ Len(body.value.members) = 1
    /\ Field(body, "error") = Raw(message)

MissingKeyText == "OpenAI API key is not set in Netlify environment variables."

-----------------------------------------------------------------------------
(* C1 *)

\* C1 as stated: every POST, whatever its body, answered while the key is
\* absent or empty returns 500 with {"error": <the missing-key message>}.
C1_AnyBodyMissingKey ==
    \A i \in Invocations :
        (Done(i) /\ IsPost(i) /\ Falsy(env[i])) =>
            /\ Len(returned[i]) = 1
            /\ Result(i).statusCode = 500
            /\ IsErrorEnvelope(Result(i).body, MissingKeyText)

\* C1 as amended: every POST answered while the key is absent or empty returns
\* 500 with a JSON body that has an error field; the field is the missing-key
\* message when the request body parses as JSON, and the parse error's message
\* when it does not (the body is parsed before the key is read).
C1_MissingKey ==
    \A i \in Invocations :
        (Done(i) /\ IsPost(i) /\ Falsy(env[i])) =>
            /\ Len(returned[i]) = 1
            /\ Result(i).statusCode = 500
            /\ HasField(Result(i).body, "error")
            /\ Parseable(i) => IsErrorEnvelope(Result(i).body, MissingKeyText)
            /\ ~Parseable(i) => Field(Result(i).body, "error") # Raw(MissingKeyText)

C1_Witness ==
    \E i \in Invocations :
        /\ Done(i) /\ IsPost(i) /\ env[i] = Undefined /\ Parseable(i)
        /\ Result(i).statusCode = 500

-----------------------------------------------------------------------------
(* C2 *)

\* What an upstream request shows apart from its Authorization header.
WithoutAuthorization(call) == [url |-> call.url, method |-> call.method, body |-> call.body]

-----------------------------------------------------------------------------
(* C3 *)

\* C3: a request whose method is not exactly POST is answered 405 with the
\* plain text Method Not Allowed, whatever its body and the key; its body is not
\* parsed, the key is not read, nothing is logged and no upstream request is
\* issued.
C3_MethodNotAllowed ==
    \A i \in Invocations :
        (event[i] # None /\ event[i].httpMethod # "POST") =>
            /\ pc[i] = "done"
            /\ returned[i] = <<[statusCode |-> 405, body |-> Raw("Method Not Allowed")]>>
            /\ steps[i] = <<"method">>
            /\ requestBody[i] = None
            /\ apiKey[i] = None
            /\ calls[i] = <<>>
            /\ log[i] = <<>>

C3_Witness ==
    \E i \in Invocations :
        /\ event[i] # None /\ event[i].httpMethod = "post"
        /\ IsJSON(ToString(event[i].body)) /\ ~Falsy(env[i])
        /\ Done(i) /\ Result(i).statusCode = 405

-----------------------------------------------------------------------------
(* C4 *)

\* C4: when the upstream answers a POST with a non-success status S and the
\* body text T, the handler returns status S and a JSON envelope whose details
\* field is T and which has an error field.
C4_UpstreamErrorRelayed ==
    \A i \in Invocations :
        (Done(i) /\ Resolved(i) /\ ~response[i].ok /\ BodyText(i)) =>
            /\ Len(returned[i]) = 1
            /\ Result(i).statusCode = response[i].status
            /\ HasField(Result(i).body, "details")
            /\ Field(Result(i).body, "details") = upstreamBody[i].text
            /\ HasField(Result(i).body, "error")

C4_Witness ==
    \E i \in Invocations :
        /\ Done(i) /\ Resolved(i) /\ response[i].status = 401 /\ BodyText(i)
        /\ IsJSON(upstreamBody[i].text)
        /\ Result(i).statusCode = 401

-----------------------------------------------------------------------------
(* C5 *)

\* C5: when the upstream answers a POST with a success status and a JSON body,
\* the handler returns 200 and a body that denotes the same JSON value as the
\* upstream's body.
C5_SuccessVerbatim ==
    \A i \in Invocations :
        (Done(i) /\ Resolved(i) /\ response[i].ok /\ BodyText(i)
                 /\ IsJSON(upstreamBody[i].text)) =>
            /\ Len(returned[i]) = 1
            /\ Result(i).statusCode = 200
            /\ Result(i).body.kind = "json"
            /\ Result(i).body.value = upstreamBody[i].text.value

-----------------------------------------------------------------------------
(* C6 *)

ExceptionCaught(i) ==
    \E n \in DOMAIN log[i] : log[i][n].label = "Proxy function error:"

\* C6: the status returned is 405 and the method is not POST, or 200 and the
\* upstream succeeded with a body that decoded as JSON, or the upstream's own
\* status and that status is a non-success one, or 500 and an exception was
\* caught.
C6_StatusCodes ==
    \A i \in Invocations :
        Done(i) =>
            /\ Len(returned[i]) = 1
            /\ \/ Result(i).statusCode = 405 /\ ~IsPost(i)
               \/ /\ Result(i).statusCode = 200
                  /\ Resolved(i) /\ response[i].ok
                  /\ BodyText(i) /\ IsJSON(upstreamBody[i].text)
               \/ /\ Resolved(i) /\ ~response[i].ok
                  /\ Result(i).statusCode = response[i].status
               \/ Result(i).statusCode = 500 /\ ExceptionCaught(i)

C6_Witness ==
    \E i \in Invocations :
        /\ Done(i) /\ Resolved(i) /\ response[i].status = 500 /\ BodyText(i)
        /\ Result(i).statusCode = 500 /\ ~ExceptionCaught(i)

-----------------------------------------------------------------------------
(* C7 *)

\* The first failure of a POST invocation, in the order the handler meets them.
Failure(i) ==
    IF ~Parseable(i) THEN SyntaxErrorMessage(ToString(event[i].body))
    ELSE IF Falsy(env[i]) THEN MissingKeyText
    ELSE IF Rejected(i) THEN response[i].error.message.chars
    ELSE IF BodyLost(i) THEN upstreamBody[i].error.message.chars
    ELSE IF Resolved(i) /\ response[i].ok /\ BodyText(i) /\ ~IsJSON(upstreamBody[i].text)
         THEN SyntaxErrorMessage(upstreamBody[i].text)
    ELSE "none"

\* C7: a POST invocation in which the request body fails to parse, the key is
\* missing, the fetch rejects, the read of the upstream body fails or the
\* successful upstream body is no JSON ends by returning 500 with the JSON
\* envelope {"error": <message of that failure>}, once, after logging it.
C7_FailuresCaught ==
    \A i \in Invocations :
        /\ pc[i] \in {"idle", "awaitFetch", "awaitText", "awaitJson", "done"}
        /\ (Done(i) /\ IsPost(i) /\ Failure(i) # "none") =>
            /\ Len(returned[i]) = 1
            /\ Result(i).statusCode = 500
            /\ IsErrorEnvelope(Result(i).body, Failure(i))
            /\ ExceptionCaught(i)

C7_Witness ==
    \E i, j \in Invocations :
        /\ Done(i) /\ IsPost(i) /\ ~Parseable(i) /\ Result(i).statusCode = 500
        /\ Done(j) /\ IsPost(j) /\ Resolved(j) /\ response[j].ok /\ BodyText(j)
        /\ ~IsJSON(upstreamBody[j].text) /\ Result(j).statusCode = 500

-----------------------------------------------------------------------------
(* C8 *)

\* C8: when the fetch and the body reads settle, every invocation that was
\* started ends having returned exactly one response, and no invocation ever
\* returns more than one.
C8_Completes ==
    \A i \in Invocations :
        /\ (pc[i] # "idle") ~> (pc[i] = "done" /\ Len(returned[i]) = 1)
        /\ [](Len(returned[i]) <= 1)

C8_Witness ==
    \E i \in Invocations :
        /\ Done(i) /\ Resolved(i) /\ BodyText(i) /\ Len(returned[i]) = 1

-----------------------------------------------------------------------------
(* C9 *)

\* C9: under every interleaving, two invocations that got the same request,
\* read the same key and got the same upstream behaviour have returned the
\* same responses; and what an invocation forwards and returns is taken from
\* its own request and its own upstream response.
C9_Independent ==
    \A i \in Invocations :
        /\ \A j \in Invocations :
              (/\ event[i] = event[j]
               /\ apiKey[i] = apiKey[j]
               /\ response[i] = response[j]
               /\ upstreamBody[i] = upstreamBody[j]) =>
                    returned[i] = returned[j] /\ log[i] = log[j]
        /\ \A n \in DOMAIN calls[i] :
              calls[i][n].body.value = ToJS(event[i].body.value)
        /\ (Done(i) /\ Resolved(i) /\ BodyText(i) /\ ~response[i].ok) =>
              /\ Result(i).statusCode = response[i].status
              /\ Field(Result(i).body, "details") = upstreamBody[i].text
        /\ (Done(i) /\ Resolved(i) /\ BodyText(i) /\ response[i].ok
                    /\ IsJSON(upstreamBody[i].text)) =>
              Result(i).body.value = ToJS(upstreamBody[i].text.value)

C9_Witness ==
    \E i, j \in Invocations :
        /\ i # j /\ Done(i) /\ Done(j) /\ event[i] = event[j]
        /\ response[i] = response[j] /\ upstreamBody[i] = upstreamBody[j]
        /\ Resolved(i) /\ BodyText(i) /\ returned[i] = returned[j]

-----------------------------------------------------------------------------
(* C10 *)

\* C10: an invocation issues at most one upstream request, and only after it
\* found the method to be POST, parsed the body and read a non-empty key, in
\* that order; the request is a POST to the completions URL whose
\* Authorization header is Bearer followed by that key and whose body is the
\* compact serialization of the parsed request body.  A non-POST, a POST with
\* an unparseable body and a POST without key issue none.
C10_UpstreamGuarded ==
    \A i \in Invocations :
        /\ Len(calls[i]) <= 1
        /\ calls[i] # <<>> =>
            /\ IsPost(i) /\ Parseable(i)
            /\ apiKey[i] = env[i]
            /\ apiKey[i] \notin {None, Undefined, Raw("")}
            /\ steps[i] = <<"method", "parse", "readKey", "fetch">>
            /\ requestBody[i] = ToJS(event[i].body.value)
            /\ calls[i][1] =
                 [url |-> "https://api.openai.com/v1/chat/completions",
                  method |-> "POST",
                  headers |-> [ContentType |-> "application/json",
                               Authorization |-> "Bearer " \o apiKey[i].chars],
                  body |-> Doc(requestBody[i], "compact")]
        /\ (event[i] # None /\ (~IsPost(i) \/ ~Parseable(i) \/ Falsy(env[i]))) =>
              calls[i] = <<>>

C10_Witness ==
    \E i \in Invocations :
        /\ Len(calls[i]) = 1 /\ Done(i)
        /\ event[i].body.layout = "spaced"
        /\ calls[i][1].body # event[i].body

=============================================================================
